---------------------------- MODULE Spec2Model ----------------------------
(***************************************************************************)
(* MealMatch (src/app.py): the weekly meal plan.  The relational tables    *)
(* are the state; every route handler is an action made of the SQL         *)
(* statements it executes, in order.  _generate_plan is a pure operator    *)
(* over the rows its queries return.                                       *)
(*                                                                         *)
(* Dates are day ordinals; ordinal 0 is a Monday, so date.weekday() is     *)
(* the ordinal modulo 7.  datetime.now() is a logical clock that advances  *)
(* at every reading.  A match percent is the exact value of                *)
(* available / total * 100, kept as a reduced fraction [n, d].             *)
(***************************************************************************)
EXTENDS Integers, Sequences, FiniteSets, TLC

VARIABLES
    today,              \* date.today(), a day ordinal
    clock,              \* datetime.now()
    uniqueKey,          \* schema.sql: is (user_id, week_start) UNIQUE in mealplans?
    uniqueName,         \* schema.sql: is (user_id, name), letter case aside, UNIQUE in ingredients?
                        \* (schema.sql declares the keys of the data model, or no key)
    ingredients,        \* table ingredients: rows [id, user_id, name, quantity, unit]
    nextIngredientId,   \* rowid the next INSERT INTO ingredients gets
    recipes,            \* table recipes: rows [id, title]
    nextRecipeId,       \* rowid the next INSERT INTO recipes gets
    recipe_ingredients, \* table recipe_ingredients, by recipe_id, in rowid order
    mealplans,          \* table mealplans: rows [id, user_id, generated_on, week_start, plan_json]
    nextPlanId,         \* rowid the next INSERT INTO mealplans gets
    ret,                \* per user: what the last /mealplan request answered
    hist,               \* per user: the last plan request made ("none", "got", "regen")
    exported,           \* what the last /export/mealplan request answered
    pc,                 \* per request process: the statement it is at
    loc,                \* per request process: its local variables
    ops                 \* requests served so far

vars == <<today, clock, uniqueKey, uniqueName, ingredients, nextIngredientId, recipes,
          nextRecipeId, recipe_ingredients, mealplans, nextPlanId, ret, hist,
          exported, pc, loc, ops>>

-----------------------------------------------------------------------------
(* Bounds of the model *)

MaxOps == 5             \* requests served in a behaviour
LastDay == 7            \* the last date: the Monday of the second week
MaxCatalog == 7         \* recipes in a drawn catalog (generation specification)
MaxBare == 3            \* of them, those that may have no requirement

(* Program constants *)

DaysInPlan == 7
Threshold == 50
SafetyLimit == 100

FirstDay == DaysInPlan - 1      \* the first date: the Sunday of the first week

Users == {1, 2}
Procs == {1, 2}
None == [kind |-> "none"]

\* one more request is served
Served == ops < MaxOps /\ ops' = ops + 1

-----------------------------------------------------------------------------
(* Strings.  str.lower() and the code point order of str comparison, on    *)
(* the strings the model draws.                                            *)

Lower(s) ==
    CASE s = "Egg" -> "egg"
      [] s = "EGG" -> "egg"
      [] s = "Milk" -> "milk"
      [] s = "Flour" -> "flour"
      [] OTHER -> s

Ord(s) ==
    CASE s = "A" -> <<65>>
      [] s = "B" -> <<66>>
      [] s = "Ab" -> <<65, 98>>
      [] s = "a" -> <<97>>
      [] OTHER -> <<>>

RECURSIVE SeqLess(_, _)
SeqLess(a, b) ==
    IF b = <<>> THEN FALSE
    ELSE IF a = <<>> THEN TRUE
    ELSE IF Head(a) # Head(b) THEN Head(a) < Head(b)
    ELSE SeqLess(Tail(a), Tail(b))

StrLess(s, t) == SeqLess(Ord(s), Ord(t))

-----------------------------------------------------------------------------
(* Numbers *)

RECURSIVE Gcd(_, _)
Gcd(a, b) == IF b = 0 THEN a ELSE Gcd(b, a % b)

\* (available / total * 100) if total > 0 else 0
Percent(available, total) ==
    IF total > 0
    THEN LET g == Gcd(available * 100, total)
         IN  [n |-> (available * 100) \div g, d |-> total \div g]
    ELSE [n |-> 0, d |-> 1]

PctGeq(p, k) == p.n >= k * p.d
PctLess(p, q) == p.n * q.d < q.n * p.d

-----------------------------------------------------------------------------
(* Queries: a SELECT without ORDER BY returns rows in rowid order.         *)

RECURSIVE RowsById(_)
RowsById(S) ==
    IF S = {} THEN <<>>
    ELSE LET r == CHOOSE x \in S : \A y \in S : x.id <= y.id
         IN  <<r>> \o RowsById(S \ {r})

\* the week starts on Sunday
get_week_start_sunday(a_date) == a_date - ((a_date + 1) % 7)

\* a_date - timedelta(days=a_date.weekday())
get_week_start(a_date) == a_date - (a_date % 7)

\* the query names no user: the rows of every user are read
SelectIngredientsOfAll(table, user_id) == RowsById(table)

\* SELECT name, quantity, unit FROM ingredients WHERE user_id = ?
SelectIngredients(table, user_id) == RowsById({r \in table : r.user_id = user_id})

\* SELECT * FROM recipes
SelectRecipes(table) == RowsById(table)

\* SELECT * FROM mealplans WHERE user_id = ? AND week_start = ?  (one=True)
SelectPlan(table, user_id, week_start) ==
    LET rv == RowsById({r \in table : r.user_id = user_id /\ r.week_start = week_start})
    IN  IF rv # <<>> THEN rv[1] ELSE None

-----------------------------------------------------------------------------
(* MealPlanService._generate_plan *)

\* inv[r["name"].lower()] = {...}: a later row overwrites an earlier one; a
\* quantity that is NULL in the row is a field the entry lacks
BuildInventory(rows) ==
    LET keys == {Lower(rows[i].name) : i \in DOMAIN rows}
        last(k) == CHOOSE i \in DOMAIN rows :
                      /\ Lower(rows[i].name) = k
                      /\ \A j \in DOMAIN rows : Lower(rows[j].name) = k => j <= i
    IN  [k \in keys |->
            [f \in DOMAIN rows[last(k)] \cap {"quantity", "unit"} |-> rows[last(k)][f]]]

\* required = ri["required_quantity"] or 0: NULL and 0 give 0
Required(ri) ==
    IF "required_quantity" \notin DOMAIN ri THEN 0
    ELSE IF ri.required_quantity = 0 THEN 0 ELSE ri.required_quantity

\* None >= required raises TypeError
CompareRaises(inv, ri) ==
    /\ Lower(ri.ingredient_name) \in DOMAIN inv
    /\ "quantity" \notin DOMAIN inv[Lower(ri.ingredient_name)]

\* the requirement's name is looked up as written
IsAvailableAsWritten(inv, ri) ==
    ri.ingredient_name \in DOMAIN inv /\ inv[ri.ingredient_name].quantity >= Required(ri)

\* name in inv and inv[name]["quantity"] >= required
IsAvailable(inv, ri) ==
    LET name == Lower(ri.ingredient_name)
    IN  name \in DOMAIN inv /\ inv[name].quantity >= Required(ri)

RECURSIVE CountAvailable(_, _)
CountAvailable(inv, rec_ing_rows) ==
    IF rec_ing_rows = <<>> THEN 0
    ELSE (IF IsAvailable(inv, Head(rec_ing_rows)) THEN 1 ELSE 0)
            + CountAvailable(inv, Tail(rec_ing_rows))

ScoreRecipe(inv, rec, rec_ing_rows) ==
    LET total == Len(rec_ing_rows)
        available == CountAvailable(inv, rec_ing_rows)
    IN  [id |-> rec.id, title |-> rec.title, available |-> available,
         total |-> total, percent |-> Percent(available, total)]

\* the threshold is exclusive
IsCandidateAbove(r) == r.total > 0 /\ PctLess([n |-> Threshold, d |-> 1], r.percent)

\* lambda r: r["total"] > 0 and r["percent"] >= 50
IsCandidate(r) == r.total > 0 /\ PctGeq(r.percent, Threshold)

RECURSIVE Filter(_)
Filter(recipe_list) ==
    IF recipe_list = <<>> THEN <<>>
    ELSE (IF IsCandidate(Head(recipe_list)) THEN <<Head(recipe_list)>> ELSE <<>>)
            \o Filter(Tail(recipe_list))

\* the sort is ascending in the percent
KeyLessAscending(x, y) ==
    \/ PctLess(x.percent, y.percent)
    \/ x.percent = y.percent /\ StrLess(x.title, y.title)

\* key=lambda x: (-x["percent"], x["title"]), compared as tuples
KeyLess(x, y) ==
    \/ PctLess(y.percent, x.percent)
    \/ x.percent = y.percent /\ StrLess(x.title, y.title)

\* list.sort is stable: x goes before the first entry whose key is greater
RECURSIVE InsertSorted(_, _)
InsertSorted(sorted, x) ==
    IF sorted = <<>> THEN <<x>>
    ELSE IF KeyLess(x, Head(sorted)) THEN <<x>> \o sorted
    ELSE <<Head(sorted)>> \o InsertSorted(Tail(sorted), x)

RECURSIVE SortCandidates(_)
SortCandidates(cands) ==
    IF cands = <<>> THEN <<>>
    ELSE InsertSorted(SortCandidates(SubSeq(cands, 1, Len(cands) - 1)), cands[Len(cands)])

\* the sentinel takes the place numbers from 0
SentinelFromZero(day) ==
    [day |-> day - 1, title |-> "No suitable recipe", match |-> Percent(0, 0)]

Sentinel(day) == [day |-> day, title |-> "No suitable recipe", match |-> Percent(0, 0)]

\* the day carries the count of available requirements as its match
AssignedCount(day, chosen) ==
    [day |-> day, title |-> chosen.title, match |-> Percent(chosen.available, 100),
     recipe_id |-> chosen.id]

Assigned(day, chosen) ==
    [day |-> day, title |-> chosen.title, match |-> chosen.percent, recipe_id |-> chosen.id]

\* each candidate is used once: no cycling
RECURSIVE PlanLoopOnce(_, _, _)
PlanLoopOnce(plan, i, candidates) ==
    IF ~(Len(plan) < DaysInPlan) \/ (candidates # <<>> /\ i >= Len(candidates))
    THEN [plan |-> plan, i |-> i]
    ELSE LET entry == IF candidates = <<>>
                      THEN [day |-> Len(plan) + 1, title |-> "No suitable recipe",
                            match |-> Percent(0, 0)]
                      ELSE [day |-> Len(plan) + 1, title |-> candidates[i + 1].title,
                            match |-> candidates[i + 1].percent,
                            recipe_id |-> candidates[i + 1].id]
         IN  PlanLoopOnce(Append(plan, entry), i + 1, candidates)

\* a cursor anomaly: the cursor advances by 20 at each day
RECURSIVE PlanLoopSkipping(_, _, _)
PlanLoopSkipping(plan, i, candidates) ==
    IF ~(Len(plan) < DaysInPlan) THEN [plan |-> plan, i |-> i]
    ELSE LET entry == IF candidates = <<>>
                      THEN [day |-> Len(plan) + 1, title |-> "No suitable recipe",
                            match |-> Percent(0, 0)]
                      ELSE [day |-> Len(plan) + 1,
                            title |-> candidates[(i % Len(candidates)) + 1].title,
                            match |-> candidates[(i % Len(candidates)) + 1].percent,
                            recipe_id |-> candidates[(i % Len(candidates)) + 1].id]
             plan2 == Append(plan, entry)
         IN  IF i + 20 > SafetyLimit THEN [plan |-> plan2, i |-> i + 20]
             ELSE PlanLoopSkipping(plan2, i + 20, candidates)

\* the while loop of _generate_plan, with its safety break: the plan and
\* the cursor i it ends with (i counts the iterations)
RECURSIVE PlanLoop(_, _, _)
PlanLoop(plan, i, candidates) ==
    IF ~(Len(plan) < DaysInPlan) THEN [plan |-> plan, i |-> i]
    ELSE LET entry == IF candidates = <<>>
                      THEN Sentinel(Len(plan) + 1)
                      ELSE Assigned(Len(plan) + 1, candidates[(i % Len(candidates)) + 1])
             plan2 == Append(plan, entry)
         IN  IF i + 1 > SafetyLimit THEN [plan |-> plan2, i |-> i + 1]
             ELSE PlanLoop(plan2, i + 1, candidates)

\* the snapshot keeps the percent as a whole number
SlimRounded(c) == [id |-> c.id, title |-> c.title,
                   percent |-> [n |-> c.percent.n \div c.percent.d, d |-> 1],
                   available |-> c.available, total |-> c.total]

\* lines 254-263: the candidate as stored
Slim(c) == [id |-> c.id, title |-> c.title, percent |-> c.percent,
            available |-> c.available, total |-> c.total]

\* does _generate_plan raise over these rows?
GenerationRaises(rows, recs, reqs) ==
    LET inv == BuildInventory(rows)
    IN  \E i \in DOMAIN recs : \E j \in DOMAIN reqs[recs[i].id] :
           CompareRaises(inv, reqs[recs[i].id][j])

\* _generate_plan over the rows its queries returned: rows of the user's
\* ingredients, recs of recipes, reqs[id] of recipe_ingredients for recipe id
generate_plan(rows, recs, reqs) ==
    LET inv == BuildInventory(rows)
        recipe_list == [i \in DOMAIN recs |-> ScoreRecipe(inv, recs[i], reqs[recs[i].id])]
        candidates == SortCandidates(Filter(recipe_list))
        loop == PlanLoop(<<>>, 0, candidates)
    IN  [plan |-> loop.plan, i |-> loop.i,
         candidates |-> [k \in DOMAIN candidates |-> Slim(candidates[k])]]

-----------------------------------------------------------------------------
(* The stored payload.  A JSON text is a document: an object with its      *)
(* members, or a text json.loads rejects.  Numbers, strings and lists of   *)
(* a payload read back as they were written.                               *)

json_dumps(d) == [kind |-> "object", members |-> d]

Get(members, key, default) == IF key \in DOMAIN members THEN members[key] ELSE default

\* a live view: the stored row only marks the week as generated
ExistingResultLive(existing, week_start) ==
    LET recs == SelectRecipes(recipes)
        g == generate_plan(SelectIngredients(ingredients, existing.user_id), recs,
                           [id \in {recs[i].id : i \in DOMAIN recs} |->
                               IF id \in DOMAIN recipe_ingredients
                               THEN recipe_ingredients[id] ELSE <<>>])
    IN  [kind |-> "page", plan |-> g.plan, generated_on |-> existing.generated_on,
         week_start |-> week_start, candidates |-> g.candidates]

\* no try around the parse: a payload that does not parse fails the request
ExistingResultStrict(existing, week_start) ==
    IF existing.plan_json.kind = "object"
    THEN [kind |-> "page",
          plan |-> Get(existing.plan_json.members, "plan", <<>>),
          generated_on |-> existing.generated_on,
          week_start |-> week_start,
          candidates |-> Get(existing.plan_json.members, "candidates", <<>>)]
    ELSE [kind |-> "error"]

\* lines 183-190: the except branch answers empty lists
ExistingResult(existing, week_start) ==
    LET doc == existing.plan_json
        parsed == doc.kind \in {"object", "empty"}
        payload == IF doc.kind = "object" THEN doc.members ELSE <<>>
    IN  [kind |-> "page",
         plan |-> IF parsed THEN Get(payload, "plan", <<>>) ELSE <<>>,
         generated_on |-> existing.generated_on,
         week_start |-> week_start,
         candidates |-> IF parsed THEN Get(payload, "candidates", <<>>) ELSE <<>>]

NewResult(g, generated_on, week_start) ==
    [kind |-> "page", plan |-> g.plan, generated_on |-> generated_on,
     week_start |-> week_start, candidates |-> g.candidates]

\* mealplan(): except DBError -> flash, redirect to the dashboard
Failure == [kind |-> "error"]

\* an exception that is no DBError leaves mealplan(): the request fails
Crash == [kind |-> "crash"]

\* the row is written with the days only
PlanRowDaysOnly(id, user_id, generated_on, week_start, g) ==
    [id |-> id, user_id |-> user_id, generated_on |-> generated_on,
     week_start |-> week_start, plan_json |-> json_dumps([plan |-> g.plan])]

PlanRow(id, user_id, generated_on, week_start, g) ==
    [id |-> id, user_id |-> user_id, generated_on |-> generated_on,
     week_start |-> week_start,
     plan_json |-> json_dumps([plan |-> g.plan, candidates |-> g.candidates])]

\* does the INSERT INTO mealplans violate the schema's constraint?
InsertRejected(table, row) ==
    uniqueKey /\ \E r \in table : r.user_id = row.user_id /\ r.week_start = row.week_start

-----------------------------------------------------------------------------
(* Inputs of the requests *)

IngredientInputs ==
    {[name |-> "Egg", quantity |-> 3, unit |-> "pcs"],
     [name |-> "egg", quantity |-> 1, unit |-> "g"]}

\* an ingredient line "name|qty|unit", split at "|" and stripped
RecipeInputs ==
    {[title |-> "A", lines |-> << <<"egg", 2>> >>],
     [title |-> "B", lines |-> << <<"EGG">>, <<"Milk", 1, "cup">> >>],
     [title |-> "a", lines |-> << <<"">> >>]}

Formats == {"json", "csv"}

-----------------------------------------------------------------------------
(* IngredientService and its routes *)

\* two rows of one user carry one name, letter case aside
DuplicateNames(table) ==
    \E r1, r2 \in table :
       r1.id # r2.id /\ r1.user_id = r2.user_id /\ Lower(r1.name) = Lower(r2.name)

\* the constraint compares the names as written
NameRejectedAsWritten(table, user_id, name, id) ==
    uniqueName /\ \E r \in table : r.user_id = user_id /\ r.name = name /\ r.id # id

\* does the INSERT or UPDATE of ingredient id violate the schema's constraint?
NameRejected(table, user_id, name, id) ==
    uniqueName /\ \E r \in table :
                     r.user_id = user_id /\ Lower(r.name) = Lower(name) /\ r.id # id

\* the values bound to the statement: sqlite3 binds a float NaN as NULL, a
\* column the row then lacks
Bound(in) == [f \in DOMAIN in \cap {"name", "quantity", "unit"} |-> in[f]]

\* the row keeps the values of the fields given and takes the others of row
Merged(row, values) ==
    [f \in (DOMAIN row \ {"name", "quantity", "unit"}) \cup DOMAIN values |->
        IF f \in DOMAIN values THEN values[f] ELSE row[f]]

\* a new ingredient also drops the user's stored plans
AddIngredientInvalidating(u, in) ==
    /\ Served
    /\ ingredients' = ingredients \cup
          {[id |-> nextIngredientId, user_id |-> u, name |-> in.name,
            quantity |-> in.quantity, unit |-> in.unit]}
    /\ nextIngredientId' = nextIngredientId + 1
    /\ mealplans' = {r \in mealplans : r.user_id # u}
    /\ UNCHANGED <<today, clock, uniqueKey, uniqueName, recipes, nextRecipeId, recipe_ingredients,
                   nextPlanId, ret, hist, exported, pc, loc>>

\* add_ingredient(): INSERT INTO ingredients; a rejected INSERT is flashed
AddIngredient(u, in) ==
    /\ Served
    /\ IF NameRejected(ingredients, u, in.name, nextIngredientId)
       THEN UNCHANGED <<ingredients, nextIngredientId>>
       ELSE /\ ingredients' = ingredients \cup
                  {Merged([id |-> nextIngredientId, user_id |-> u], Bound(in))}
            /\ nextIngredientId' = nextIngredientId + 1
    /\ UNCHANGED <<today, clock, uniqueKey, uniqueName, recipes, nextRecipeId, recipe_ingredients,
                   mealplans, nextPlanId, ret, hist, exported, pc, loc>>

\* edit_ingredient(): get_ingredient(id, user) must find the row; UPDATE ... WHERE id = ?;
\* a rejected UPDATE is flashed
EditIngredient(u, id, in) ==
    /\ Served
    /\ \E r \in ingredients : r.id = id /\ r.user_id = u
    /\ IF NameRejected(ingredients, u, in.name, id)
       THEN UNCHANGED ingredients
       ELSE ingredients' = {IF r.id = id THEN Merged(r, Bound(in)) ELSE r :
                               r \in ingredients}
    /\ UNCHANGED <<today, clock, uniqueKey, uniqueName, nextIngredientId, recipes, nextRecipeId,
                   recipe_ingredients, mealplans, nextPlanId, ret, hist, exported, pc, loc>>

\* delete_ingredient(): DELETE FROM ingredients WHERE id = ? AND user_id = ?
DeleteIngredient(u, id) ==
    /\ Served
    /\ ingredients' = {r \in ingredients : ~(r.id = id /\ r.user_id = u)}
    /\ UNCHANGED <<today, clock, uniqueKey, uniqueName, nextIngredientId, recipes, nextRecipeId,
                   recipe_ingredients, mealplans, nextPlanId, ret, hist, exported, pc, loc>>

-----------------------------------------------------------------------------
(* RecipeService and its routes *)

\* qty = float(parts[1]) if len(parts) > 1 and parts[1] else 1; unit likewise
ParseLine(parts) ==
    [ingredient_name |-> parts[1],
     required_quantity |-> IF Len(parts) > 1 THEN parts[2] ELSE 1,
     unit |-> IF Len(parts) > 2 THEN parts[3] ELSE "pcs"]

\* the rows the loop over ingredient_lines inserts: a line without a name is skipped
RECURSIVE ParseLines(_)
ParseLines(lines) ==
    IF lines = <<>> THEN <<>>
    ELSE (IF Len(Head(lines)) >= 1 /\ Head(lines)[1] # ""
          THEN <<ParseLine(Head(lines))>> ELSE <<>>) \o ParseLines(Tail(lines))

\* SELECT * FROM recipe_ingredients WHERE recipe_id = ?
SelectRequirements(table, recipe_id) ==
    IF recipe_id \in DOMAIN table THEN table[recipe_id] ELSE <<>>

\* create_recipe(): INSERT INTO recipes, then one INSERT per line
AddRecipe(in) ==
    /\ Served
    /\ recipes' = recipes \cup {[id |-> nextRecipeId, title |-> in.title]}
    /\ recipe_ingredients' =
          [id \in DOMAIN recipe_ingredients \cup {nextRecipeId} |->
              IF id = nextRecipeId
              THEN SelectRequirements(recipe_ingredients, id) \o ParseLines(in.lines)
              ELSE recipe_ingredients[id]]
    /\ nextRecipeId' = nextRecipeId + 1
    /\ UNCHANGED <<today, clock, uniqueKey, uniqueName, ingredients, nextIngredientId,
                   mealplans, nextPlanId, ret, hist, exported, pc, loc>>

\* edit_recipe(): get_recipe(id) must find it; update_recipe(): UPDATE, DELETE, INSERTs
EditRecipe(id, in) ==
    /\ Served
    /\ \E r \in recipes : r.id = id
    /\ recipes' = {IF r.id = id THEN [r EXCEPT !.title = in.title] ELSE r : r \in recipes}
    /\ recipe_ingredients' =
          [i \in DOMAIN recipe_ingredients \cup {id} |->
              IF i = id THEN ParseLines(in.lines) ELSE recipe_ingredients[i]]
    /\ UNCHANGED <<today, clock, uniqueKey, uniqueName, ingredients, nextIngredientId, nextRecipeId,
                   mealplans, nextPlanId, ret, hist, exported, pc, loc>>

\* delete_recipe(): DELETE FROM recipes WHERE id = ? (its requirement rows stay)
DeleteRecipe(id) ==
    /\ Served
    /\ \E r \in recipes : r.id = id
    /\ recipes' = {r \in recipes : r.id # id}
    /\ UNCHANGED <<today, clock, uniqueKey, uniqueName, ingredients, nextIngredientId, nextRecipeId,
                   recipe_ingredients, mealplans, nextPlanId, ret, hist, exported, pc, loc>>

-----------------------------------------------------------------------------
(* MealPlanService.get_or_create_weekly_plan and the plan routes, each     *)
(* request served alone                                                    *)

\* _generate_plan(user_id) on the tables as they are
GenerateNow(u) ==
    LET recs == SelectRecipes(recipes)
    IN  generate_plan(SelectIngredients(ingredients, u), recs,
                      [id \in {recs[i].id : i \in DOMAIN recs} |->
                          SelectRequirements(recipe_ingredients, id)])

\* does _generate_plan(user_id) raise on the tables as they are?
GenerateRaisesNow(u) ==
    LET recs == SelectRecipes(recipes)
    IN  GenerationRaises(SelectIngredients(ingredients, u), recs,
                         [id \in {recs[i].id : i \in DOMAIN recs} |->
                             SelectRequirements(recipe_ingredients, id)])

\* the lookup never finds the stored plan
LookupMiss(u, week_start) == None

\* line 180: the lookup decides between the stored plan and a new one
Lookup(u, week_start) == SelectPlan(mealplans, u, week_start)

\* what the first candidate requires is taken from the inventory
Deplete(table, u, reqs) ==
    {IF r.user_id = u /\ \E j \in DOMAIN reqs :
                            /\ Lower(reqs[j].ingredient_name) = Lower(r.name)
                            /\ r.quantity >= Required(reqs[j])
     THEN [r EXCEPT !.quantity =
              @ - Required(reqs[CHOOSE j \in DOMAIN reqs :
                                   /\ Lower(reqs[j].ingredient_name) = Lower(r.name)
                                   /\ r.quantity >= Required(reqs[j])])]
     ELSE r : r \in table}

\* a generation that uses up the ingredients of the recipe of day 1
MealPlanDepleting(u) ==
    LET week_start == get_week_start(today)
        existing == Lookup(u, week_start)
    IN  /\ Served
        /\ hist' = [hist EXCEPT ![u] = "got"]
        /\ IF existing # None
           THEN /\ ret' = [ret EXCEPT ![u] = ExistingResult(existing, week_start)]
                /\ UNCHANGED <<clock, mealplans, nextPlanId, ingredients>>
           ELSE LET g == GenerateNow(u)
                    row == PlanRow(nextPlanId, u, clock, week_start, g)
                IN  /\ clock' = clock + 1
                    /\ mealplans' = mealplans \cup {row}
                    /\ nextPlanId' = nextPlanId + 1
                    /\ ret' = [ret EXCEPT ![u] = NewResult(g, clock, week_start)]
                    /\ ingredients' =
                          IF g.candidates = <<>> THEN ingredients
                          ELSE Deplete(ingredients, u,
                                       SelectRequirements(recipe_ingredients,
                                                          g.candidates[1].id))
        /\ UNCHANGED <<today, uniqueKey, uniqueName, nextIngredientId, recipes,
                       nextRecipeId, recipe_ingredients, exported, pc, loc>>

\* mealplan(): get_or_create_weekly_plan(user["id"])
MealPlan(u) ==
    LET week_start == get_week_start(today)
        existing == Lookup(u, week_start)
    IN  /\ Served
        /\ hist' = [hist EXCEPT ![u] = "got"]
        /\ IF existing # None
           THEN /\ ret' = [ret EXCEPT ![u] = ExistingResult(existing, week_start)]
                /\ UNCHANGED <<clock, mealplans, nextPlanId>>
           ELSE IF GenerateRaisesNow(u)
           THEN /\ ret' = [ret EXCEPT ![u] = Crash]
                /\ UNCHANGED <<clock, mealplans, nextPlanId>>
           ELSE LET g == GenerateNow(u)
                    row == PlanRow(nextPlanId, u, clock, week_start, g)
                IN  /\ clock' = clock + 1
                    /\ IF InsertRejected(mealplans, row)
                       THEN /\ ret' = [ret EXCEPT ![u] = Failure]
                            /\ UNCHANGED <<mealplans, nextPlanId>>
                       ELSE /\ mealplans' = mealplans \cup {row}
                            /\ nextPlanId' = nextPlanId + 1
                            /\ ret' = [ret EXCEPT ![u] = NewResult(g, clock, week_start)]
        /\ UNCHANGED <<today, uniqueKey, uniqueName, ingredients, nextIngredientId, recipes,
                       nextRecipeId, recipe_ingredients, exported, pc, loc>>

\* the DELETE misses the row: it names the week after
RegenerateNextWeek(u) ==
    LET week_start == get_week_start(today) + DaysInPlan
    IN  /\ Served
        /\ mealplans' = {r \in mealplans : ~(r.user_id = u /\ r.week_start = week_start)}
        /\ hist' = [hist EXCEPT ![u] = "regen"]
        /\ UNCHANGED <<today, clock, uniqueKey, uniqueName, ingredients, nextIngredientId, recipes,
                       nextRecipeId, recipe_ingredients, nextPlanId, ret, exported, pc, loc>>

\* the DELETE names the user only: the plans of all weeks go
RegenerateAllWeeks(u) ==
    /\ Served
    /\ mealplans' = {r \in mealplans : r.user_id # u}
    /\ hist' = [hist EXCEPT ![u] = "regen"]
    /\ UNCHANGED <<today, clock, uniqueKey, uniqueName, ingredients, nextIngredientId, recipes,
                   nextRecipeId, recipe_ingredients, nextPlanId, ret, exported, pc, loc>>

\* regenerate_mealplan(): DELETE FROM mealplans WHERE user_id = ? AND week_start = ?
Regenerate(u) ==
    LET week_start == get_week_start(today)
    IN  /\ Served
        /\ mealplans' = {r \in mealplans : ~(r.user_id = u /\ r.week_start = week_start)}
        /\ hist' = [hist EXCEPT ![u] = "regen"]
        /\ UNCHANGED <<today, clock, uniqueKey, uniqueName, ingredients, nextIngredientId, recipes,
                       nextRecipeId, recipe_ingredients, nextPlanId, ret, exported, pc, loc>>

\* writer.writerow([p.get("day",""), p.get("title",""), p.get("match",""), p.get("recipe_id","")])
CsvRow(p) == <<Get(p, "day", ""), Get(p, "title", ""), Get(p, "match", ""),
               IF "recipe_id" \in DOMAIN p THEN <<p.recipe_id>> ELSE <<>> >>

\* export_mealplan(fmt)
ExportMealplan(u, fmt) ==
    LET week_start == get_week_start(today)
        existing == SelectPlan(mealplans, u, week_start)
        doc == existing.plan_json
        payload == IF doc.kind = "object" THEN doc.members ELSE [plan |-> <<>>]
        plan == Get(payload, "plan", payload)
    IN  /\ Served
        /\ exported' =
              IF existing = None THEN [kind |-> "redirect", user_id |-> u]
              ELSE IF fmt = "json"
                   THEN [kind |-> "json", user_id |-> u, week_start |-> existing.week_start,
                         generated_on |-> existing.generated_on, plan |-> plan]
                   ELSE [kind |-> "csv", user_id |-> u, week_start |-> existing.week_start,
                         rows |-> [i \in DOMAIN plan |-> CsvRow(plan[i])]]
        /\ UNCHANGED <<today, clock, uniqueKey, uniqueName, ingredients, nextIngredientId, recipes,
                       nextRecipeId, recipe_ingredients, mealplans, nextPlanId, ret,
                       hist, pc, loc>>

\* the date moves on
AdvanceDay ==
    /\ today < LastDay
    /\ today' = today + 1
    /\ UNCHANGED <<clock, uniqueKey, uniqueName, ingredients, nextIngredientId, recipes, nextRecipeId,
                   recipe_ingredients, mealplans, nextPlanId, ret, hist, exported, pc, loc, ops>>

-----------------------------------------------------------------------------
(* The application with every request served alone *)

Init ==
    /\ today = FirstDay
    /\ clock = 1
    /\ uniqueKey \in BOOLEAN
    /\ uniqueName = uniqueKey
    /\ ingredients = {}
    /\ nextIngredientId = 1
    /\ recipes = {}
    /\ nextRecipeId = 1
    /\ recipe_ingredients = <<>>
    /\ mealplans = {}
    /\ nextPlanId = 1
    /\ ret = [u \in Users |-> None]
    /\ hist = [u \in Users |-> "none"]
    /\ exported = None
    /\ pc = [p \in Procs |-> "idle"]
    /\ loc = [p \in Procs |-> None]
    /\ ops = 0

Next ==
    \/ \E u \in Users, in \in IngredientInputs : AddIngredient(u, in)
    \/ \E u \in Users, r \in ingredients, in \in IngredientInputs :
          EditIngredient(u, r.id, in)
    \/ \E u \in Users, r \in ingredients : DeleteIngredient(u, r.id)
    \/ \E in \in RecipeInputs : AddRecipe(in)
    \/ \E r \in recipes, in \in RecipeInputs : EditRecipe(r.id, in)
    \/ \E r \in recipes : DeleteRecipe(r.id)
    \/ \E u \in Users : MealPlan(u)
    \/ \E u \in Users : Regenerate(u)
    \/ AdvanceDay

Spec == Init /\ [][Next]_vars

\* the same with the export route
ExportNext ==
    \/ Next
    \/ \E u \in Users, fmt \in Formats : ExportMealplan(u, fmt)

ExportSpec == Init /\ [][ExportNext]_vars

\* the routes that use the week key, over the two weeks, with the requests
\* that give a user an inventory and the catalog its recipes
WeekInputs == {[name |-> "Egg", quantity |-> 3, unit |-> "pcs"]}

WeekNext ==
    \/ \E u \in Users, in \in WeekInputs : AddIngredient(u, in)
    \/ \E in \in RecipeInputs : AddRecipe(in)
    \/ \E u \in Users : MealPlan(u)
    \/ \E u \in Users : Regenerate(u)
    \/ \E u \in Users, fmt \in Formats : ExportMealplan(u, fmt)
    \/ AdvanceDay

WeekSpec == Init /\ [][WeekNext]_vars

-----------------------------------------------------------------------------
(* A stored payload that was damaged outside the application: the cases    *)
(* lines 183-189 provide for.  "text" does not parse; "empty" is NULL or   *)
(* the empty text; "array" parses to a list, which has no get(); an object *)
(* may lack members.                                                       *)

Restrict(members, keys) == [k \in DOMAIN members \cap keys |-> members[k]]

Damaged(doc) ==
    {[kind |-> "text"], [kind |-> "empty"], [kind |-> "array"]}
    \cup (IF doc.kind = "object"
          THEN {[kind |-> "object", members |-> Restrict(doc.members, keys)] :
                   keys \in (SUBSET {"plan", "candidates"}) \ {{"plan", "candidates"}}}
          ELSE {})

\* the payload of row r is damaged; the event is counted with the requests
Corrupt(r, doc) ==
    /\ Served
    /\ r \in mealplans
    /\ doc \in Damaged(r.plan_json) \ {r.plan_json}
    /\ mealplans' = (mealplans \ {r}) \cup {[r EXCEPT !.plan_json = doc]}
    /\ UNCHANGED <<today, clock, uniqueKey, uniqueName, ingredients, nextIngredientId, recipes,
                   nextRecipeId, recipe_ingredients, nextPlanId, ret, hist, exported, pc, loc>>

CorruptNext ==
    \/ \E u \in Users, in \in IngredientInputs : AddIngredient(u, in)
    \/ \E in \in RecipeInputs : AddRecipe(in)
    \/ \E u \in Users : MealPlan(u)
    \/ \E u \in Users : Regenerate(u)
    \/ \E r \in mealplans : \E doc \in Damaged(r.plan_json) : Corrupt(r, doc)

CorruptSpec == Init /\ [][CorruptNext]_vars

-----------------------------------------------------------------------------
(* Concurrent /mealplan requests: no transaction spans the statements of   *)
(* get_or_create_weekly_plan (Database.execute commits each one), so the   *)
(* statements of two requests interleave.                                  *)

\* lines 175-190: the lookup; a stored plan is answered at once
P_Lookup(p, u) ==
    LET week_start == get_week_start(today)
        existing == Lookup(u, week_start)
    IN  /\ Served
        /\ pc[p] = "idle"
        /\ hist' = [hist EXCEPT ![u] = "got"]
        /\ IF existing # None
           THEN /\ ret' = [ret EXCEPT ![u] = ExistingResult(existing, week_start)]
                /\ UNCHANGED <<pc, loc>>
           ELSE /\ pc' = [pc EXCEPT ![p] = "inventory"]
                /\ loc' = [loc EXCEPT ![p] = [user_id |-> u, week_start |-> week_start]]
                /\ UNCHANGED ret
        /\ UNCHANGED <<today, clock, uniqueKey, uniqueName, ingredients, nextIngredientId, recipes,
                       nextRecipeId, recipe_ingredients, mealplans, nextPlanId, exported>>

\* line 202: the inventory query
P_ReadInventory(p) ==
    /\ pc[p] = "inventory"
    /\ loc' = [loc EXCEPT ![p] =
                  [user_id |-> loc[p].user_id, week_start |-> loc[p].week_start,
                   rows |-> SelectIngredients(ingredients, loc[p].user_id)]]
    /\ pc' = [pc EXCEPT ![p] = "recipes"]
    /\ UNCHANGED <<today, clock, uniqueKey, uniqueName, ingredients, nextIngredientId, recipes,
                   nextRecipeId, recipe_ingredients, mealplans, nextPlanId, ret, hist,
                   exported, ops>>

\* line 208: the recipes query
P_ReadRecipes(p) ==
    /\ pc[p] = "recipes"
    /\ loc' = [loc EXCEPT ![p] =
                  [user_id |-> loc[p].user_id, week_start |-> loc[p].week_start,
                   rows |-> loc[p].rows, recs |-> SelectRecipes(recipes), reqs |-> <<>>]]
    /\ pc' = [pc EXCEPT ![p] = IF recipes = {} THEN "insert" ELSE "requirements"]
    /\ UNCHANGED <<today, clock, uniqueKey, uniqueName, ingredients, nextIngredientId, recipes,
                   nextRecipeId, recipe_ingredients, mealplans, nextPlanId, ret, hist,
                   exported, ops>>

\* line 213: the requirements query of the next recipe of the loop
P_ReadRequirements(p) ==
    /\ pc[p] = "requirements"
    /\ LET k == Cardinality(DOMAIN loc[p].reqs) + 1
           id == loc[p].recs[k].id
       IN  /\ loc' = [loc EXCEPT ![p].reqs =
                         [i \in DOMAIN loc[p].reqs \cup {id} |->
                             IF i = id THEN SelectRequirements(recipe_ingredients, id)
                             ELSE loc[p].reqs[i]]]
           /\ pc' = [pc EXCEPT ![p] =
                        IF k = Len(loc[p].recs) THEN "insert" ELSE "requirements"]
    /\ UNCHANGED <<today, clock, uniqueKey, uniqueName, ingredients, nextIngredientId, recipes,
                   nextRecipeId, recipe_ingredients, mealplans, nextPlanId, ret, hist,
                   exported, ops>>

\* lines 221-264 and 194-197: score, build, INSERT INTO mealplans, answer
P_Insert(p) ==
    /\ pc[p] = "insert"
    /\ LET u == loc[p].user_id
           g == generate_plan(loc[p].rows, loc[p].recs, loc[p].reqs)
           row == PlanRow(nextPlanId, u, clock, loc[p].week_start, g)
       IN  IF GenerationRaises(loc[p].rows, loc[p].recs, loc[p].reqs)
           THEN /\ ret' = [ret EXCEPT ![u] = Crash]
                /\ UNCHANGED <<clock, mealplans, nextPlanId>>
           ELSE /\ clock' = clock + 1
                /\ IF InsertRejected(mealplans, row)
                   THEN /\ ret' = [ret EXCEPT ![u] = Failure]
                        /\ UNCHANGED <<mealplans, nextPlanId>>
                   ELSE /\ mealplans' = mealplans \cup {row}
                        /\ nextPlanId' = nextPlanId + 1
                        /\ ret' = [ret EXCEPT ![u] = NewResult(g, clock, loc[p].week_start)]
    /\ pc' = [pc EXCEPT ![p] = "idle"]
    /\ loc' = [loc EXCEPT ![p] = None]
    /\ UNCHANGED <<today, uniqueKey, uniqueName, ingredients, nextIngredientId, recipes, nextRecipeId,
                   recipe_ingredients, hist, exported, ops>>

RaceNext ==
    \/ \E p \in Procs, u \in Users : P_Lookup(p, u)
    \/ \E p \in Procs : P_ReadInventory(p)
    \/ \E p \in Procs : P_ReadRecipes(p)
    \/ \E p \in Procs : P_ReadRequirements(p)
    \/ \E p \in Procs : P_Insert(p)
    \/ \E u \in Users, in \in IngredientInputs : AddIngredient(u, in)
    \/ \E in \in RecipeInputs : AddRecipe(in)
    \/ \E u \in Users : Regenerate(u)

RaceSpec == Init /\ [][RaceNext]_vars

\* The same statements on the schedule of a regenerate that follows a change
\* of the inventory: the user adds ingredients before the regenerate, not
\* between it and the next /mealplan request (hist[u] is "regen" from the
\* DELETE of the regenerate to the user's next lookup).
ChangeBeforeRegenerate(u, in) == hist[u] # "regen" /\ AddIngredient(u, in)

StaleNext ==
    \/ \E p \in Procs, u \in Users : P_Lookup(p, u)
    \/ \E p \in Procs : P_ReadInventory(p)
    \/ \E p \in Procs : P_ReadRecipes(p)
    \/ \E p \in Procs : P_ReadRequirements(p)
    \/ \E p \in Procs : P_Insert(p)
    \/ \E u \in Users, in \in IngredientInputs : ChangeBeforeRegenerate(u, in)
    \/ \E in \in RecipeInputs : AddRecipe(in)
    \/ \E u \in Users : Regenerate(u)

StaleSpec == Init /\ [][StaleNext]_vars

-----------------------------------------------------------------------------
(* A recipe edited while plans are generated: update_recipe runs its       *)
(* UPDATE, its DELETE and its INSERTs as statements of their own, each     *)
(* committed by Database.execute, and the queries of a concurrent          *)
(* _generate_plan run between them.  Process Editor serves the edit.       *)

Editor == CHOOSE p \in Procs : \A q \in Procs : p <= q

\* edit_recipe(): get_recipe(id) finds the recipe and reads its requirements
U_Begin(id, in) ==
    /\ Served
    /\ pc[Editor] = "idle"
    /\ \E r \in recipes : r.id = id
    /\ pc' = [pc EXCEPT ![Editor] = "upd_title"]
    /\ loc' = [loc EXCEPT ![Editor] =
                  [recipe_id |-> id, title |-> in.title,
                   old |-> SelectRequirements(recipe_ingredients, id),
                   new |-> ParseLines(in.lines)]]
    /\ UNCHANGED <<today, clock, uniqueKey, uniqueName, ingredients, nextIngredientId, recipes,
                   nextRecipeId, recipe_ingredients, mealplans, nextPlanId, ret, hist,
                   exported>>

\* line 146: UPDATE recipes SET title = ? ... WHERE id = ?
U_Title ==
    /\ pc[Editor] = "upd_title"
    /\ recipes' = {IF r.id = loc[Editor].recipe_id
                   THEN [r EXCEPT !.title = loc[Editor].title] ELSE r : r \in recipes}
    /\ pc' = [pc EXCEPT ![Editor] = "upd_delete"]
    /\ UNCHANGED <<today, clock, uniqueKey, uniqueName, ingredients, nextIngredientId, nextRecipeId,
                   recipe_ingredients, mealplans, nextPlanId, ret, hist, exported, loc, ops>>

\* line 148: DELETE FROM recipe_ingredients WHERE recipe_id = ?
U_Delete ==
    /\ pc[Editor] = "upd_delete"
    /\ recipe_ingredients' =
          [i \in DOMAIN recipe_ingredients \cup {loc[Editor].recipe_id} |->
              IF i = loc[Editor].recipe_id THEN <<>> ELSE recipe_ingredients[i]]
    /\ IF loc[Editor].new = <<>>
       THEN pc' = [pc EXCEPT ![Editor] = "idle"] /\ loc' = [loc EXCEPT ![Editor] = None]
       ELSE pc' = [pc EXCEPT ![Editor] = "upd_insert"] /\ UNCHANGED loc
    /\ UNCHANGED <<today, clock, uniqueKey, uniqueName, ingredients, nextIngredientId, recipes,
                   nextRecipeId, mealplans, nextPlanId, ret, hist, exported, ops>>

\* lines 149-156: the INSERT of the next line of the loop
U_Insert ==
    /\ pc[Editor] = "upd_insert"
    /\ LET id == loc[Editor].recipe_id
           k == Len(recipe_ingredients[id]) + 1
       IN  /\ recipe_ingredients' =
                 [recipe_ingredients EXCEPT ![id] = Append(@, loc[Editor].new[k])]
           /\ IF k = Len(loc[Editor].new)
              THEN pc' = [pc EXCEPT ![Editor] = "idle"]
                   /\ loc' = [loc EXCEPT ![Editor] = None]
              ELSE UNCHANGED <<pc, loc>>
    /\ UNCHANGED <<today, clock, uniqueKey, uniqueName, ingredients, nextIngredientId, recipes,
                   nextRecipeId, mealplans, nextPlanId, ret, hist, exported, ops>>

UpdateRaceNext ==
    \/ \E r \in recipes, in \in RecipeInputs : U_Begin(r.id, in)
    \/ U_Title
    \/ U_Delete
    \/ U_Insert
    \/ \E p \in Procs, u \in Users : P_Lookup(p, u)
    \/ \E p \in Procs : P_ReadInventory(p)
    \/ \E p \in Procs : P_ReadRecipes(p)
    \/ \E p \in Procs : P_ReadRequirements(p)
    \/ \E p \in Procs : P_Insert(p)
    \/ \E u \in Users, in \in IngredientInputs : AddIngredient(u, in)
    \/ \E in \in RecipeInputs : AddRecipe(in)

UpdateRaceSpec == Init /\ [][UpdateRaceNext]_vars

-----------------------------------------------------------------------------
(* Quantities that are no number.  add_ingredient() takes the quantity by  *)
(* float(), which reads "nan" as the float NaN; sqlite3 binds NaN as NULL, *)
(* so the row has no quantity.                                             *)

QuantityInputs ==
    IngredientInputs \cup {[name |-> "egg", nan |-> TRUE, unit |-> "pcs"]}

QuantityNext ==
    \/ \E u \in Users, in \in QuantityInputs : AddIngredient(u, in)
    \/ \E in \in RecipeInputs : AddRecipe(in)
    \/ \E u \in Users : MealPlan(u)

QuantitySpec == Init /\ [][QuantityNext]_vars

-----------------------------------------------------------------------------
(* Plan generation over drawn data: the tables hold a drawn inventory for  *)
(* each user and a drawn catalog, and the users ask for their plans.       *)

GenInventories ==
    <<<<[name |-> "Egg", quantity |-> 3, unit |-> "pcs"]>>,
      <<[name |-> "Egg", quantity |-> 1, unit |-> "pcs"],
        [name |-> "milk", quantity |-> 1, unit |-> "l"]>>,
      <<[name |-> "egg", quantity |-> 2, unit |-> "pcs"],
        [name |-> "Milk", quantity |-> 1, unit |-> "cup"],
        [name |-> "flour", quantity |-> 5, unit |-> "g"]>>,
      <<[name |-> "egg", quantity |-> 3, unit |-> "pcs"],
        [name |-> "Egg", quantity |-> 1, unit |-> "pcs"]>>>>

GenRequirements ==
    {<<>>,
     <<[ingredient_name |-> "egg", required_quantity |-> 2, unit |-> "pcs"],
       [ingredient_name |-> "Milk", required_quantity |-> 1, unit |-> "cup"]>>,
     <<[ingredient_name |-> "EGG", required_quantity |-> 1, unit |-> "pcs"],
       [ingredient_name |-> "milk", required_quantity |-> 1, unit |-> "pcs"],
       [ingredient_name |-> "Flour", required_quantity |-> 1, unit |-> "pcs"]>>}

GenTitle(id) == <<"B", "a", "A", "Ab">>[(id % 4) + 1]

\* the rows of user 1 and of user 2, inserted in turn
GenRows(inv1, inv2) ==
    {[id |-> 2 * i - 1, user_id |-> 1, name |-> inv1[i].name,
      quantity |-> inv1[i].quantity, unit |-> inv1[i].unit] : i \in DOMAIN inv1}
    \cup
    {[id |-> 2 * i, user_id |-> 2, name |-> inv2[i].name,
      quantity |-> inv2[i].quantity, unit |-> inv2[i].unit] : i \in DOMAIN inv2}

\* the requirement lists recipe id may be drawn with: only the first
\* MaxBare recipes may come without requirements
RequirementsAt(id) == IF id <= MaxBare THEN GenRequirements ELSE GenRequirements \ {<<>>}

GenInit ==
    /\ today = FirstDay
    /\ clock = 1
    /\ uniqueKey \in BOOLEAN
    /\ \E k \in DOMAIN GenInventories :
          /\ ingredients = GenRows(GenInventories[k],
                                   GenInventories[(k % Len(GenInventories)) + 1])
          /\ nextIngredientId = 2 * Len(GenInventories[3]) + 1
    /\ uniqueName = uniqueKey
    /\ uniqueName => ~DuplicateNames(ingredients)
    /\ \E n \in 0..MaxCatalog :
          /\ recipes = {[id |-> i, title |-> GenTitle(i)] : i \in 1..n}
          /\ nextRecipeId = n + 1
          /\ recipe_ingredients \in {f \in [1..n -> GenRequirements] :
                                        \A i \in 1..n : f[i] \in RequirementsAt(i)}
    /\ mealplans = {}
    /\ nextPlanId = 1
    /\ ret = [u \in Users |-> None]
    /\ hist = [u \in Users |-> "none"]
    /\ exported = None
    /\ pc = [p \in Procs |-> "idle"]
    /\ loc = [p \in Procs |-> None]
    /\ ops = MaxOps - Cardinality(Users)

GenNext == \E u \in Users : MealPlan(u)

GenSpec == GenInit /\ [][GenNext]_vars

-----------------------------------------------------------------------------
(* Properties *)

PlanOf(row) == row.plan_json.members.plan
CandidatesOf(row) == row.plan_json.members.candidates
RowOf(u, week_start) == SelectPlan(mealplans, u, week_start)
ThisWeek == get_week_start(today)

\* C1: a /mealplan request that follows another one of the same user in the
\* same week, with no regenerate between them, answers the same plan,
\* generated_on, week_start and candidates, whatever happened to the
\* inventory and the catalog in between.
C1_Stability ==
    [][\A u \in Users :
          (MealPlan(u) /\ hist[u] = "got" /\ ret[u].kind = "page"
             /\ ret[u].week_start = ThisWeek)
          => ret'[u] = ret[u]]_vars

\* the plan was answered this week, no regenerate since, and the tables now
\* would give another plan: the next request of the user is a second call
C1_Witness ==
    \E u \in Users :
       /\ hist[u] = "got" /\ ret[u].kind = "page" /\ ret[u].week_start = ThisWeek
       /\ RowOf(u, ThisWeek) # None
       /\ GenerateNow(u).plan # ret[u].plan
       /\ GenerateNow(u).candidates # ret[u].candidates

\* C2: the table never holds two rows for one (user_id, week_start).
C2_OnePlanPerWeek ==
    \A r1, r2 \in mealplans :
       (r1.user_id = r2.user_id /\ r1.week_start = r2.week_start) => r1 = r2

\* a plan was generated, regenerated away and generated again
C2_Witness ==
    /\ nextPlanId = 3
    /\ \E r \in mealplans : r.id = 2 /\ hist[r.user_id] = "got"
    /\ \E u \in Users : hist[u] = "none"
    /\ ~ \E r \in mealplans : r.id = 1

\* C3: two concurrent first requests for one (user_id, week_start) never
\* leave two divergent plans stored for it, and neither request ends in a
\* failure shown to the user.
C3_RaceTolerated ==
    /\ \A r1, r2 \in mealplans :
          (r1.user_id = r2.user_id /\ r1.week_start = r2.week_start)
          => r1.plan_json = r2.plan_json
    /\ \A u \in Users : ret[u] # Failure

\* what the current tables give for user u, from the queries themselves
FreshPlan(u) ==
    LET recs == RowsById(recipes)
    IN  generate_plan(RowsById({r \in ingredients : r.user_id = u}), recs,
                      [id \in {r.id : r \in recipes} |->
                          IF id \in DOMAIN recipe_ingredients
                          THEN recipe_ingredients[id] ELSE <<>>])

\* C4: the /mealplan request that follows a regenerate answers and stores
\* the plan and candidates built from the inventory and the catalog as
\* they are at that request.
C4_RegenerateIsFresh ==
    [][\A u \in Users :
          (MealPlan(u) /\ hist[u] = "regen")
          => /\ ret'[u].kind = "page"
             /\ ret'[u].plan = FreshPlan(u).plan
             /\ ret'[u].candidates = FreshPlan(u).candidates
             /\ \E r \in mealplans' :
                   /\ r.user_id = u /\ r.week_start = ThisWeek
                   /\ r.generated_on = ret'[u].generated_on
                   /\ PlanOf(r) = FreshPlan(u).plan
                   /\ CandidatesOf(r) = FreshPlan(u).candidates]_vars

\* the second plan of a user who regenerated, stored and answered, and
\* holding a recipe
C4_Witness ==
    \E r \in mealplans :
       /\ r.id = 2 /\ ~ \E r1 \in mealplans : r1.id = 1
       /\ hist[r.user_id] = "got"
       /\ \A v \in Users \ {r.user_id} : hist[v] = "none"
       /\ ret[r.user_id].generated_on = r.generated_on
       /\ ret[r.user_id].week_start = 0
       /\ CandidatesOf(r) # <<>>
       /\ nextIngredientId = 2 /\ nextRecipeId = 2

\* C5: a stored row is changed or removed by regenerate alone: every other
\* request (ingredients, recipes, /mealplan, export) leaves each row of
\* mealplans as it is.
C5_OnlyRegenerateChanges ==
    [][(\E r \in mealplans : r \notin mealplans') => \E u \in Users : Regenerate(u)]_vars

\* a stored plan outlived the recipe it names and was exported as stored
C5_Witness ==
    \E r \in mealplans :
       /\ CandidatesOf(r) # <<>>
       /\ recipes = {} /\ ingredients # {}
       /\ hist[r.user_id] = "got"
       /\ ret[r.user_id].plan = PlanOf(r)
       /\ exported.kind = "json" /\ exported.user_id = r.user_id
       /\ exported.plan = PlanOf(r)

Complete(r) ==
    /\ r.plan_json.kind = "object"
    /\ DOMAIN r.plan_json.members = {"plan", "candidates"}
    /\ Len(PlanOf(r)) = DaysInPlan

\* C6: per (user_id, week_start) a plan is absent or generated: /mealplan
\* leaves it generated, regenerate leaves it absent, and a row that is
\* there is a whole plan.
C6_TwoStates ==
    [][/\ \A u \in Users : MealPlan(u) => SelectPlan(mealplans', u, ThisWeek) # None
       /\ \A u \in Users : Regenerate(u) => SelectPlan(mealplans', u, ThisWeek) = None
       /\ \A r \in mealplans' : Complete(r)]_vars

\* the plan this user was shown this week is absent again
C6_Witness ==
    \E u \in Users :
       /\ hist[u] = "regen" /\ ret[u].kind = "page" /\ ret[u].week_start = ThisWeek
       /\ RowOf(u, ThisWeek) = None
       /\ \E r \in mealplans : r.user_id # u

-----------------------------------------------------------------------------
(* Properties of the generated plan, stated from the tables *)

\* every plan there is: the stored ones and the answered ones
Plans ==
    {[user_id |-> r.user_id, plan |-> PlanOf(r), candidates |-> CandidatesOf(r)] :
        r \in mealplans}
    \cup {[user_id |-> u, plan |-> ret[u].plan, candidates |-> ret[u].candidates] :
             u \in {v \in Users : ret[v].kind = "page"}}

\* C7: a generated plan has exactly 7 days, numbered 1 to 7 in order,
\* whatever the number of candidates.
C7_SevenDays ==
    \A p \in Plans :
       /\ Len(p.plan) = 7
       /\ \A d \in 1..7 : p.plan[d].day = d

\* a plan of seven or more candidates
C7_Witness ==
    \E r \in mealplans : Len(CandidatesOf(r)) >= 7 /\ ret[r.user_id].plan = PlanOf(r)

\* C8: with n >= 1 candidates, day d is candidate (d-1) mod n of the ranked
\* list, with its title, match percent and recipe id.
C8_RoundRobin ==
    \A p \in Plans :
       LET n == Len(p.candidates)
       IN  n >= 1 =>
              \A d \in DOMAIN p.plan :
                 LET c == p.candidates[((d - 1) % n) + 1]
                 IN  /\ p.plan[d].title = c.title
                     /\ p.plan[d].match = c.percent
                     /\ "recipe_id" \in DOMAIN p.plan[d]
                     /\ p.plan[d].recipe_id = c.id

\* two candidates C1, C2 of different match: the week is C1,C2,C1,C2,C1,C2,C1
C8_Witness ==
    \E r \in mealplans :
       /\ Len(CandidatesOf(r)) = 2
       /\ CandidatesOf(r)[1].percent # CandidatesOf(r)[2].percent
       /\ [d \in 1..7 |-> PlanOf(r)[d].recipe_id] =
             [d \in 1..7 |-> CandidatesOf(r)[IF d % 2 = 1 THEN 1 ELSE 2].id]

\* the requirement is met by user u: the last of u's rows of that name,
\* letter case aside, holds at least the required quantity
Met(u, req) ==
    \E r \in ingredients :
       /\ r.user_id = u /\ Lower(r.name) = Lower(req.ingredient_name)
       /\ \A r2 \in ingredients :
             (r2.user_id = u /\ Lower(r2.name) = Lower(req.ingredient_name)) => r2.id <= r.id
       /\ r.quantity >= req.required_quantity

TotalCount(id) == Len(recipe_ingredients[id])
AvailableCount(u, id) ==
    Cardinality({i \in DOMAIN recipe_ingredients[id] : Met(u, recipe_ingredients[id][i])})

Qualifies(u, id) == TotalCount(id) >= 1 /\ 2 * AvailableCount(u, id) >= TotalCount(id)

\* the stored plans: in GenSpec the tables are those they were built from
Stored == {[user_id |-> r.user_id, plan |-> PlanOf(r), candidates |-> CandidatesOf(r)] :
              r \in mealplans}

\* C9: when no recipe qualifies, all 7 days are the sentinel, title
\* "No suitable recipe", match 0 and no recipe id, and there is no candidate.
C9_Sentinel ==
    \A p \in Stored :
       (\A rec \in recipes : ~Qualifies(p.user_id, rec.id))
       => /\ p.candidates = <<>>
          /\ p.plan = [d \in 1..7 |->
                         [day |-> d, title |-> "No suitable recipe", match |-> [n |-> 0, d |-> 1]]]

\* a catalog with recipes that have requirements, none of which qualifies
C9_Witness ==
    \E p \in Stored :
       /\ \A rec \in recipes : ~Qualifies(p.user_id, rec.id)
       /\ \E rec \in recipes : TotalCount(rec.id) >= 1 /\ AvailableCount(p.user_id, rec.id) >= 1
       /\ p.plan[7].title = "No suitable recipe"

\* C10: the candidates are the recipes with at least one requirement and
\* 2 * availableCount >= totalCount; a recipe without requirements scores 0
\* and is neither a candidate nor on any day.
C10_CandidateIff ==
    /\ \A p \in Stored :
          /\ {p.candidates[i].id : i \in DOMAIN p.candidates}
                = {rec.id : rec \in {x \in recipes : Qualifies(p.user_id, x.id)}}
          /\ \A rec \in recipes :
                TotalCount(rec.id) = 0 =>
                   \A d \in DOMAIN p.plan :
                      "recipe_id" \in DOMAIN p.plan[d] => p.plan[d].recipe_id # rec.id
    /\ \A rec \in recipes :
          TotalCount(rec.id) = 0 =>
             ScoreRecipe(<<>>, rec, recipe_ingredients[rec.id]).percent = [n |-> 0, d |-> 1]

\* a recipe at exactly 50 is a candidate, one at 1/3 is not, and the
\* catalog holds a recipe without requirements
C10_Witness ==
    \E p \in Stored :
       /\ \E i \in DOMAIN p.candidates :
             p.candidates[i].percent = [n |-> 50, d |-> 1] /\ p.candidates[i].total = 2
       /\ \E rec \in recipes :
             /\ TotalCount(rec.id) = 3 /\ AvailableCount(p.user_id, rec.id) = 1
             /\ \A i \in DOMAIN p.candidates : p.candidates[i].id # rec.id
       /\ \E rec \in recipes : TotalCount(rec.id) = 0

\* C11: the candidate list, as answered and as stored, is sorted: of two
\* adjacent entries the second has no greater match percent, and when the
\* match percents are equal its title is not before the first one's.
C11_Sorted ==
    \A p \in Plans :
       \A i \in 1..(Len(p.candidates) - 1) :
          LET a == p.candidates[i]
              b == p.candidates[i + 1]
          IN  /\ a.percent.n * b.percent.d >= b.percent.n * a.percent.d
              /\ a.percent = b.percent => ~SeqLess(Ord(b.title), Ord(a.title))

\* a stored list that the sort reordered: a later recipe comes first by its
\* match, and two entries of equal match stand against their rowid order
C11_Witness ==
    \E r \in mealplans :
       LET c == CandidatesOf(r)
       IN  /\ \E i \in 1..(Len(c) - 1) :
                 c[i].percent # c[i + 1].percent /\ c[i].id > c[i + 1].id
           /\ \E i \in 1..(Len(c) - 1) :
                 /\ c[i].percent = c[i + 1].percent
                 /\ c[i].title # c[i + 1].title /\ c[i].id > c[i + 1].id

\* what _generate_plan scores recipe rec with for user u, on the tables as
\* they are
ScoreOf(u, rec) ==
    ScoreRecipe(BuildInventory(SelectIngredients(ingredients, u)), rec,
                SelectRequirements(recipe_ingredients, rec.id))

\* C12: for every recipe, availableCount is the number of its requirements
\* whose name is, letter case aside, in the user's inventory with at least
\* the required quantity (units aside); availableCount <= totalCount, and
\* matchPercent = 100 * availableCount / totalCount when totalCount > 0.
\* It holds of the score of each recipe and of each stored candidate.
C12_Score ==
    /\ \A u \in Users, rec \in recipes :
          LET s == ScoreOf(u, rec)
          IN  /\ s.total = TotalCount(rec.id)
              /\ s.available = AvailableCount(u, rec.id)
              /\ s.available <= s.total
              /\ s.total > 0 => s.percent.n * s.total = 100 * s.available * s.percent.d
    /\ \A p \in Stored :
          \A i \in DOMAIN p.candidates :
             LET c == p.candidates[i]
             IN  /\ c.total = TotalCount(c.id)
                 /\ c.available = AvailableCount(p.user_id, c.id)
                 /\ c.available <= c.total
                 /\ c.percent.n * c.total = 100 * c.available * c.percent.d

\* a stored candidate with one requirement met through a name of another
\* letter case and a unit of another name, and one not met for its quantity
C12_Witness ==
    \E r \in mealplans :
       \E i \in DOMAIN CandidatesOf(r) :
          LET c == CandidatesOf(r)[i]
              reqs == recipe_ingredients[c.id]
          IN  /\ c.available = 1 /\ c.total = 2
              /\ \E j \in DOMAIN reqs, row \in ingredients :
                    /\ row.user_id = r.user_id /\ Met(r.user_id, reqs[j])
                    /\ row.name # reqs[j].ingredient_name
                    /\ Lower(row.name) = Lower(reqs[j].ingredient_name)
                    /\ row.unit # reqs[j].unit
              /\ \E j \in DOMAIN reqs, row \in ingredients :
                    /\ row.user_id = r.user_id /\ ~Met(r.user_id, reqs[j])
                    /\ Lower(row.name) = Lower(reqs[j].ingredient_name)
                    /\ row.quantity < reqs[j].required_quantity

\* the part of a stored payload, or the empty sequence when the payload
\* does not parse to an object or lacks the part
StoredPart(row, key) ==
    IF row.plan_json.kind = "object" /\ key \in DOMAIN row.plan_json.members
    THEN row.plan_json.members[key]
    ELSE <<>>

\* C13: a /mealplan request that finds a stored payload which does not
\* parse, or lacks plan or candidates, answers a page with the empty
\* sequence for each part it cannot read and the stored value for the
\* other, and leaves the table as it is.
C13_DamagedPayload ==
    [][\A u \in Users :
          (MealPlan(u) /\ RowOf(u, ThisWeek) # None /\ ~Complete(RowOf(u, ThisWeek)))
          => /\ ret'[u].kind = "page"
             /\ ret'[u].plan = StoredPart(RowOf(u, ThisWeek), "plan")
             /\ ret'[u].candidates = StoredPart(RowOf(u, ThisWeek), "candidates")
             /\ ret'[u].generated_on = RowOf(u, ThisWeek).generated_on
             /\ mealplans' = mealplans]_vars

\* a payload that lost its candidates was answered with its 7 days and no
\* candidates and is still stored, next to one that does not parse
C13_Witness ==
    /\ \E r \in mealplans :
          /\ r.plan_json.kind = "object" /\ DOMAIN r.plan_json.members = {"plan"}
          /\ hist[r.user_id] = "got" /\ ret[r.user_id].kind = "page"
          /\ ret[r.user_id].plan = r.plan_json.members.plan
          /\ Len(ret[r.user_id].plan) = DaysInPlan
          /\ ret[r.user_id].candidates = <<>>
    /\ \E r \in mealplans :
          /\ r.plan_json.kind = "text"
          /\ r.week_start = ThisWeek

\* the Monday on or before day d
Monday(d) == CHOOSE w \in 0..d : w % 7 = 0 /\ w <= d /\ d < w + 7

\* C14: /mealplan, regenerate and export each use the Monday on or before
\* the date of the request as the week key; a /mealplan request in a week
\* without a plan adds the plan under that key and leaves every stored row,
\* those of earlier weeks included, as it is.  (Each antecedent names first
\* what the route records and leaves alone, then the route.)
C14_WeekKey ==
    [][/\ \A u \in Users :
             (hist'[u] = "got" /\ today' = today /\ exported' = exported /\ MealPlan(u))
             => /\ ret'[u].kind = "page"
                   => /\ ret'[u].week_start = Monday(today)
                      /\ \E r \in mealplans' :
                            r.user_id = u /\ r.week_start = Monday(today)
                /\ (~ \E r \in mealplans : r.user_id = u /\ r.week_start = Monday(today))
                   => /\ mealplans \subseteq mealplans'
                      /\ \E r \in mealplans' \ mealplans :
                            /\ mealplans' = mealplans \cup {r}
                            /\ r.user_id = u /\ r.week_start = Monday(today)
       /\ \A u \in Users :
             (hist'[u] = "regen" /\ today' = today /\ exported' = exported /\ Regenerate(u))
             => mealplans' = {r \in mealplans :
                                ~(r.user_id = u /\ r.week_start = Monday(today))}
       /\ \A u \in Users, fmt \in Formats :
             (mealplans' = mealplans /\ hist' = hist /\ today' = today
                /\ ExportMealplan(u, fmt))
             => IF \E r \in mealplans : r.user_id = u /\ r.week_start = Monday(today)
                THEN exported'.kind = fmt /\ exported'.week_start = Monday(today)
                ELSE exported'.kind = "redirect"]_vars

\* the user has the plan of the first week and, made after the date moved
\* on, the plan of the second week, which was answered and exported
C14_Witness ==
    \E u \in Users :
       /\ today = DaysInPlan
       /\ \E r1, r2 \in mealplans :
             /\ r1.user_id = u /\ r1.week_start = 0
             /\ r2.user_id = u /\ r2.week_start = DaysInPlan /\ r2.id > r1.id
             /\ ret[u].generated_on = r2.generated_on
       /\ ret[u].week_start = DaysInPlan
       /\ exported.kind = "json" /\ exported.user_id = u
       /\ exported.week_start = DaysInPlan

NextRead(p) == loc[p].recs[Cardinality(DOMAIN loc[p].reqs) + 1].id

\* C16: a requirements query of a plan generation that runs while a recipe
\* is being edited reads, for that recipe, the whole list of before the
\* edit or the whole list of the edit.
C16_AtomicUpdate ==
    [][\A p \in Procs :
          (P_ReadRequirements(p) /\ pc[Editor] \in {"upd_title", "upd_delete", "upd_insert"}
             /\ loc[Editor].recipe_id = NextRead(p))
          => SelectRequirements(recipe_ingredients, NextRead(p))
                \in {loc[Editor].old, loc[Editor].new}]_vars

\* the inventory _generate_plan builds for user u from a table
InventoryOf(table, u) == BuildInventory(SelectIngredients(table, u))

C17_NoRaise == \A u \in Users : ret[u] # Crash

\* C19: a /mealplan request and a regenerate leave every row of the
\* inventory, every recipe and every requirement as it is.
C19_PlanningOnlyReads ==
    [][\A u \in Users :
          (MealPlan(u) \/ Regenerate(u))
          => /\ ingredients' = ingredients
             /\ recipes' = recipes
             /\ recipe_ingredients' = recipe_ingredients]_vars

\* a plan was generated with a recipe on its days, the quantity the recipe
\* requires is still in the inventory, and a plan was regenerated away
C19_Witness ==
    /\ \E r \in mealplans :
          /\ CandidatesOf(r) # <<>> /\ ret[r.user_id].plan = PlanOf(r)
          /\ hist[r.user_id] = "got"
          /\ \E rec \in recipes : rec.id = CandidatesOf(r)[1].id
          /\ recipe_ingredients[CandidatesOf(r)[1].id] # <<>>
          /\ \E row \in ingredients :
                /\ row.user_id = r.user_id /\ row.id = 1
                /\ row.quantity >= recipe_ingredients[CandidatesOf(r)[1].id][1].required_quantity
    /\ nextIngredientId = 2 /\ nextRecipeId = 2 /\ ops = 4
    /\ \E v \in Users : hist[v] = "regen"

\* C20: each day of a plan is the sentinel, without recipe id, and then the
\* plan has no candidate, or it carries the id, the title and the match
\* percent of an entry of the candidates of the same plan, a match of at
\* least 50.
C20_DaysFromSnapshot ==
    \A p \in Plans :
       \A d \in DOMAIN p.plan :
          \/ /\ "recipe_id" \notin DOMAIN p.plan[d]
             /\ p.plan[d].title = "No suitable recipe"
             /\ p.plan[d].match = [n |-> 0, d |-> 1]
             /\ p.candidates = <<>>
          \/ /\ "recipe_id" \in DOMAIN p.plan[d]
             /\ \E i \in DOMAIN p.candidates :
                   /\ p.candidates[i].id = p.plan[d].recipe_id
                   /\ p.candidates[i].title = p.plan[d].title
                   /\ p.candidates[i].percent = p.plan[d].match
             /\ p.plan[d].match.n >= Threshold * p.plan[d].match.d

\* a stored plan with a day at exactly 50 and a day at two thirds, next to
\* the other user's stored plan of days at 100
C20_Witness ==
    /\ \E r \in mealplans :
          /\ \E d \in DOMAIN PlanOf(r) : PlanOf(r)[d].match = [n |-> 50, d |-> 1]
          /\ \E d \in DOMAIN PlanOf(r) : PlanOf(r)[d].match = [n |-> 200, d |-> 3]
    /\ \E r \in mealplans : PlanOf(r)[1].match = [n |-> 100, d |-> 1]

\* C21: a get_or_create_weekly_plan call that is in flight while its user
\* completes a regenerate stores, as the plan of the week, a plan built from
\* the inventory as the regenerate left it (the inventory of the insert
\* step: the user changes it before the regenerate only), never from rows
\* the call read before.
C21_FreshAfterRegenerate ==
    [][\A p \in Procs :
          (pc[p] = "insert" /\ hist[loc[p].user_id] = "regen"
             /\ P_Insert(p) /\ mealplans' # mealplans)
          => LET u == loc[p].user_id
                 fresh == generate_plan(SelectIngredients(ingredients, u),
                                        loc[p].recs, loc[p].reqs)
             IN  PlanRow(nextPlanId, u, clock, loc[p].week_start, fresh) \in mealplans']_vars

\* C22: a regenerate of user u removes the rows stored for u and the week
\* of the request and no other: every row of another user or of another
\* week of u stays as it is, and so do the inventory, the catalog and
\* the answers; without a row for u and the week the tables stay as they are.
C22_RegenerateFrame ==
    [][\A u \in Users :
          (hist'[u] = "regen" /\ today' = today /\ Regenerate(u))
          => /\ \A r \in mealplans :
                   (r.user_id # u \/ r.week_start # Monday(today)) => r \in mealplans'
             /\ \A r \in mealplans' : r \in mealplans
             /\ \A r \in mealplans \ mealplans' :
                   r.user_id = u /\ r.week_start = Monday(today)
             /\ (~ \E r \in mealplans : r.user_id = u /\ r.week_start = Monday(today))
                   => mealplans' = mealplans
             /\ UNCHANGED <<ingredients, recipes, recipe_ingredients, ret, nextPlanId>>]_vars

\* in the second week user u regenerated: the plan of u for that week is
\* gone, the plan of u for the first week and the plan of the other user
\* for the second week are stored
C22_Witness ==
    \E u, v \in Users :
       /\ u # v
       /\ today = DaysInPlan /\ hist[u] = "regen"
       /\ ~ \E r \in mealplans : r.user_id = u /\ r.week_start = DaysInPlan
       /\ \E r \in mealplans : r.user_id = u /\ r.week_start = 0
       /\ \E r \in mealplans : r.user_id = v /\ r.week_start = DaysInPlan
       /\ Cardinality(mealplans) = 2 /\ nextPlanId = 4

\* C23: what a /mealplan request of user u answers and stores is the plan
\* and the candidates computed from the rows of u alone (the inventory rows
\* and plan rows of u, with those of every other user left out) and the
\* catalog; so two runs that differ in the rows of another user only give
\* u the same plan and candidates.
C23_Isolation ==
    [][\A u \in Users :
          (hist'[u] = "got" /\ today' = today /\ MealPlan(u))
          => LET own == {r \in ingredients : r.user_id = u}
                 mine == {r \in mealplans : r.user_id = u}
                 recs == SelectRecipes(recipes)
                 reqs == [id \in {recs[i].id : i \in DOMAIN recs} |->
                            SelectRequirements(recipe_ingredients, id)]
                 existing == SelectPlan(mine, u, ThisWeek)
                 g == generate_plan(SelectIngredients(own, u), recs, reqs)
             IN  /\ ret'[u].kind = "page"
                 /\ IF existing # None
                    THEN /\ ret'[u].plan = ExistingResult(existing, ThisWeek).plan
                         /\ ret'[u].candidates = ExistingResult(existing, ThisWeek).candidates
                         /\ mealplans' = mealplans
                    ELSE /\ ret'[u].plan = g.plan
                         /\ ret'[u].candidates = g.candidates
                         /\ \E r \in mealplans' \ mealplans :
                               /\ mealplans' = mealplans \cup {r}
                               /\ r.user_id = u
                               /\ r.plan_json = PlanRow(r.id, u, clock, ThisWeek, g).plan_json]_vars

\* user u was answered a plan with candidates, generated after the other
\* user had stored an inventory row and a plan with other days
C23_Witness ==
    \E u, v \in Users :
       /\ u # v
       /\ hist[u] = "got" /\ ret[u].kind = "page" /\ ret[u].candidates # <<>>
       /\ \E r \in ingredients : r.user_id = u
       /\ \E r \in ingredients : r.user_id = v
       /\ \E r1, r2 \in mealplans :
             /\ r1.user_id = v /\ r2.user_id = u /\ r1.id < r2.id
             /\ r1.week_start = ThisWeek /\ r2.week_start = ThisWeek
             /\ PlanOf(r2) = ret[u].plan /\ PlanOf(r1) # PlanOf(r2)

=============================================================================
